---- MODULE Spec2Model ----
(***************************************************************************)
(* Model of the ifs_in_if_conditions lint                                  *)
(* (clippy_lints/src/ifs_in_if_conditions.rs).                             *)
(*                                                                         *)
(* check_fn builds an IfVisitor for one function body and walks the body.  *)
(* IfVisitor::visit_expr keeps one mutable flag, in_outer_if, and emits a  *)
(* diagnostic for an `if` expression that it reaches while the flag is     *)
(* false.  The recursion of visit_expr / walk_expr is modelled by an       *)
(* explicit stack of frames; every action is one step of that recursion.   *)
(*                                                                         *)
(* An expression is a record [kind, macro, kids]:                          *)
(*   kind  = "If"  when higher::If::hir(expr) is Some, "Other" otherwise;  *)
(*   macro = in_external_macro(sess, expr.span);                           *)
(*   kids  = the sub-expressions walk_expr(expr) hands to visit_expr, in   *)
(*           order; for an "If" they are <<cond, then>> or                 *)
(*           <<cond, then, else>>.                                         *)
(* A node is named by its path from the root of the body (the sequence of  *)
(* child indexes); the path stands for expr.span.                          *)
(*                                                                         *)
(* visit_expr on an `if` walks the condition with walk_expr(self, cond):   *)
(* visit_expr is called on the sub-expressions of cond, never on cond      *)
(* itself, and never on the then-block.  When cond is itself an `if`, its  *)
(* condition, then-block and else-branch are what walk_expr hands on.      *)
(***************************************************************************)
EXTENDS Integers, Sequences, FiniteSets, TLC

\* Largest size of a function body: the number of nodes that are not a
\* trivial leaf, plus the number of nodes that come from a macro expansion.
MaxSize == 4

\* Largest size of a body in the specifications that run the walk to its end
\* under fairness, or twice.
MaxSizeSmall == 3

\* Largest size of a body in the specification of the deeper bodies.
MaxSizeDeep == 5

VARIABLES
    body,          \* the function body given to check_fn
    fnMacro,       \* span.from_expansion() of the function
    pc,            \* "idle", "walking" or "done": position of check_fn
    in_outer_if,   \* IfVisitor.in_outer_if
    stack,         \* pending frames of visit_expr / walk_expr, top first
    findings,      \* diagnostics emitted into cx, in order (their spans)
    entered,       \* history: [node, flag] of every call of visit_expr
    returned,      \* history: [node, flag, skipped] of every return of visit_expr
    run,           \* number of the current call of check_fn on this body
    firstRun       \* history: the diagnostics of the first call

vars == <<body, fnMacro, pc, in_outer_if, stack, findings, entered, returned,
          run, firstRun>>

----------------------------------------------------------------------------
(* Expression trees *)

\* The trivial expression: a path, a literal, an empty block.
Leaf == [kind |-> "Other", macro |-> FALSE, kids |-> <<>>]

\* A leaf that comes from an external macro.
MacroLeaf == [kind |-> "Other", macro |-> TRUE, kids |-> <<>>]

\* The then-branch of an `if` is a block expression: never an `if` itself.
IsBlock(t) == t.kind = "Other"

RECURSIVE KidSeqs(_, _, _), KidSeqsFrom(_, _, _, _)

\* The sequences of `len` trees whose sizes add up to n, where tab[k + 1] is
\* the set of the trees of size k.
KidSeqs(tab, n, len) ==
    IF len = 0
    THEN IF n = 0 THEN {<<>>} ELSE {}
    ELSE KidSeqsFrom(tab, n, len, n)

\* Those of them whose first tree has size at most k.
KidSeqsFrom(tab, n, len, k) ==
    IF k < 0
    THEN {}
    ELSE { <<t>> \o s : t \in tab[k + 1], s \in KidSeqs(tab, n - k, len - 1) }
         \cup KidSeqsFrom(tab, n, len, k - 1)

\* The trees of size exactly n >= 1.  An expression that is not an `if` has
\* one or two operands (or none: a leaf); an `if` has a condition, a block and
\* possibly an else-branch.
TreesOfSize(tab, n) ==
    LET Shapes(m) ==
            { [kind |-> "Other", kids |-> s] :
                  s \in KidSeqs(tab, m, 1) \cup KidSeqs(tab, m, 2) }
            \cup
            { [kind |-> "If", kids |-> s] :
                  s \in { q \in KidSeqs(tab, m, 2) \cup KidSeqs(tab, m, 3) :
                              IsBlock(q[2]) } }
        Plain == { [kind |-> x.kind, macro |-> FALSE, kids |-> x.kids] :
                       x \in Shapes(n - 1) }
        Macro == IF n >= 2
                 THEN { [kind |-> x.kind, macro |-> TRUE, kids |-> x.kids] :
                            x \in Shapes(n - 2) }
                 ELSE {MacroLeaf}
    IN  Plain \cup Macro

\* The table of the trees of size 0 .. n - 1, with the trees of size n added.
Extend(tab, n) == Append(tab, TreesOfSize(tab, n))

RECURSIVE TreeTable(_)

\* <<trees of size 0, trees of size 1, .., trees of size n>>
TreeTable(n) == IF n = 0 THEN <<{Leaf}>> ELSE Extend(TreeTable(n - 1), n)

RECURSIVE AllOf(_)
AllOf(tab) == IF tab = <<>> THEN {} ELSE Head(tab) \cup AllOf(Tail(tab))

\* The function bodies of size at most max.
Bodies(max) == AllOf(TreeTable(max))

RECURSIVE NodeAt(_, _)
NodeAt(t, p) == IF p = <<>> THEN t ELSE NodeAt(t.kids[Head(p)], Tail(p))

Node(p) == NodeAt(body, p)

\* in_external_macro(self.cx.tcx.sess, expr.span)
InExternalMacro(p) == Node(p).macro

\* higher::If::hir(expr) is Some
IsIf(p) == Node(p).kind = "If"

\* The fields of higher::If { cond, then, r#else }
CondOf(p) == p \o <<1>>
ThenOf(p) == p \o <<2>>
HasElse(p) == Len(Node(p).kids) = 3
ElseOf(p) == p \o <<3>>

----------------------------------------------------------------------------
(* Frames of the recursion *)

VisitFrame(p) == [op |-> "visit", node |-> p, i |-> 0]
WalkFrame(p, i) == [op |-> "walk", node |-> p, i |-> i]
ElseFrame(p) == [op |-> "else", node |-> p, i |-> 0]
RetFrame(p) == [op |-> "ret", node |-> p, i |-> 0]

Top == Head(stack)

\* The frames left when the top one is replaced or dropped.
Pop(s) == Tail(s)

\* Variant: visit_expr that does not come back to its caller.
ReturnStuck(s) == s

\* visit_expr returns to its caller: its frame is dropped.
Return(s) == Tail(s)

\* Variant: a visitor whose flag depends on what earlier walks reported.
IfVisitorNewStale(cx) == cx = <<>>

\* IfVisitor::new: the flag of a fresh visitor; cx is the lint context, which
\* holds the diagnostics emitted so far.
IfVisitorNew(cx) == TRUE

\* `if !self.in_outer_if { span_lint_and_help(.., expr.span, ..) }`
Lint(flag, cx, p) == IF ~flag THEN Append(cx, p) ELSE cx

\* The flag on entry to the else-branch (self.in_outer_if = true).
ElseFlag(flag) == TRUE

\* Variant: the else arm without its assignment of true.
OtherFlagKept(flag) == flag

\* The flag on entry to the walk of an expression that is not an `if`.
OtherFlag(flag) == TRUE

\* Variant: visit_expr without its final assignment of true.
ExitFlagKept(flag) == flag

\* The flag when visit_expr returns from an expression it did not skip.
ExitFlag(flag) == TRUE

\* Variant: visit_expr without the macro check.
SkipsNothing(p) == FALSE

\* Whether visit_expr returns at once.
Skips(p) == InExternalMacro(p)

----------------------------------------------------------------------------
(* Initial states *)

InitWith(max) ==
    /\ body \in Bodies(max)
    /\ fnMacro \in BOOLEAN
    /\ pc = "idle"
    /\ in_outer_if = TRUE      \* no visitor yet; CheckFnWalk constructs it
    /\ stack = <<>>
    /\ findings = <<>>
    /\ entered = {}
    /\ returned = {}
    /\ run = 1
    /\ firstRun = <<>>

Init == InitWith(MaxSize)

----------------------------------------------------------------------------
(* check_fn *)

\* `if span.from_expansion() { return; }`
CheckFnSkip ==
    /\ pc = "idle"
    /\ fnMacro
    /\ pc' = "done"
    /\ UNCHANGED <<body, fnMacro, in_outer_if, stack, findings, entered,
                   returned, run, firstRun>>

\* `let mut vis = IfVisitor::new(cx); walk_fn(&mut vis, ..)`: walk_fn reaches
\* visit_expr on the value of the body.
CheckFnWalk ==
    /\ pc = "idle"
    /\ ~fnMacro
    /\ in_outer_if' = IfVisitorNew(findings)
    /\ stack' = <<VisitFrame(<<>>)>>
    /\ pc' = "walking"
    /\ UNCHANGED <<body, fnMacro, findings, entered, returned, run, firstRun>>

\* walk_fn returns.
CheckFnReturn ==
    /\ pc = "walking"
    /\ stack = <<>>
    /\ pc' = "done"
    /\ UNCHANGED <<body, fnMacro, in_outer_if, stack, findings, entered,
                   returned, run, firstRun>>

----------------------------------------------------------------------------
(* visit_expr *)

\* `if in_external_macro(..) { return; }`
VisitMacro ==
    /\ pc = "walking" /\ stack # <<>> /\ Top.op = "visit"
    /\ Skips(Top.node)
    /\ stack' = Return(stack)
    /\ entered' = entered \cup {[node |-> Top.node, flag |-> in_outer_if]}
    /\ returned' = returned \cup
                     {[node |-> Top.node, flag |-> in_outer_if, skipped |-> TRUE]}
    /\ UNCHANGED <<body, fnMacro, pc, in_outer_if, findings, run, firstRun>>

\* The `if let Some(higher::If {..})` arm up to the call walk_expr(self, cond).
VisitIf ==
    /\ pc = "walking" /\ stack # <<>> /\ Top.op = "visit"
    /\ ~Skips(Top.node)
    /\ IsIf(Top.node)
    /\ findings' = Lint(in_outer_if, findings, Top.node)
    /\ in_outer_if' = FALSE
    /\ stack' = <<WalkFrame(CondOf(Top.node), 1), ElseFrame(Top.node),
                  RetFrame(Top.node)>> \o Pop(stack)
    /\ entered' = entered \cup {[node |-> Top.node, flag |-> in_outer_if]}
    /\ UNCHANGED <<body, fnMacro, pc, returned, run, firstRun>>

\* The `else` arm up to the call walk_expr(self, expr).
VisitOther ==
    /\ pc = "walking" /\ stack # <<>> /\ Top.op = "visit"
    /\ ~Skips(Top.node)
    /\ ~IsIf(Top.node)
    /\ in_outer_if' = OtherFlag(in_outer_if)
    /\ stack' = <<WalkFrame(Top.node, 1), RetFrame(Top.node)>> \o Pop(stack)
    /\ entered' = entered \cup {[node |-> Top.node, flag |-> in_outer_if]}
    /\ UNCHANGED <<body, fnMacro, pc, findings, returned, run, firstRun>>

\* walk_expr calls visit_expr on the next sub-expression.
WalkChild ==
    /\ pc = "walking" /\ stack # <<>> /\ Top.op = "walk"
    /\ Top.i <= Len(Node(Top.node).kids)
    /\ stack' = <<VisitFrame(Top.node \o <<Top.i>>), WalkFrame(Top.node, Top.i + 1)>>
                \o Pop(stack)
    /\ UNCHANGED <<body, fnMacro, pc, in_outer_if, findings, entered, returned,
                   run, firstRun>>

\* walk_expr has no sub-expression left and returns.
WalkDone ==
    /\ pc = "walking" /\ stack # <<>> /\ Top.op = "walk"
    /\ Top.i > Len(Node(Top.node).kids)
    /\ stack' = Pop(stack)
    /\ UNCHANGED <<body, fnMacro, pc, in_outer_if, findings, entered, returned,
                   run, firstRun>>

\* `if let Some(r#else) = r#else { self.in_outer_if = true; self.visit_expr(r#else); }`
ElseSome ==
    /\ pc = "walking" /\ stack # <<>> /\ Top.op = "else"
    /\ HasElse(Top.node)
    /\ in_outer_if' = ElseFlag(in_outer_if)
    /\ stack' = <<VisitFrame(ElseOf(Top.node))>> \o Pop(stack)
    /\ UNCHANGED <<body, fnMacro, pc, findings, entered, returned, run, firstRun>>

ElseNone ==
    /\ pc = "walking" /\ stack # <<>> /\ Top.op = "else"
    /\ ~HasElse(Top.node)
    /\ stack' = Pop(stack)
    /\ UNCHANGED <<body, fnMacro, pc, in_outer_if, findings, entered, returned,
                   run, firstRun>>

\* `self.in_outer_if = true;` at the end of visit_expr, and the return.
VisitReturn ==
    /\ pc = "walking" /\ stack # <<>> /\ Top.op = "ret"
    /\ in_outer_if' = ExitFlag(in_outer_if)
    /\ stack' = Return(stack)
    /\ returned' = returned \cup
                     {[node |-> Top.node, flag |-> in_outer_if', skipped |-> FALSE]}
    /\ UNCHANGED <<body, fnMacro, pc, findings, entered, run, firstRun>>

Next ==
    \/ CheckFnSkip
    \/ CheckFnWalk
    \/ CheckFnReturn
    \/ VisitMacro
    \/ VisitIf
    \/ VisitOther
    \/ WalkChild
    \/ WalkDone
    \/ ElseSome
    \/ ElseNone
    \/ VisitReturn

Spec == Init /\ [][Next]_vars

\* The walk of the bodies of size at most MaxSizeSmall, run to its end: every
\* step of the recursion is a step of one sequential call, so a step that is
\* possible is eventually taken.
InitSmall == InitWith(MaxSizeSmall)

LiveSpec == InitSmall /\ [][Next]_vars /\ WF_vars(Next)

\* The host calls check_fn a second time on the same body; the diagnostics of
\* both calls go to the same lint context.
CheckFnAgain ==
    /\ pc = "done"
    /\ run = 1
    /\ run' = 2
    /\ firstRun' = findings
    /\ pc' = "idle"
    /\ entered' = {}
    /\ returned' = {}
    /\ UNCHANGED <<body, fnMacro, in_outer_if, stack, findings>>

NextTwice ==
    \/ Next
    \/ CheckFnAgain

SpecTwice == InitSmall /\ [][NextTwice]_vars

\* The walk of the bodies of size at most MaxSizeDeep.
InitDeep == InitWith(MaxSizeDeep)

SpecDeep == InitDeep /\ [][Next]_vars

----------------------------------------------------------------------------
(* Vocabulary of the properties *)

RECURSIVE PathsOf(_)
PathsOf(t) ==
    {<<>>} \cup UNION { { <<i>> \o p : p \in PathsOf(t.kids[i]) } : i \in DOMAIN t.kids }

AllPaths == PathsOf(body)

IsPrefix(a, b) == Len(a) <= Len(b) /\ SubSeq(b, 1, Len(a)) = a

\* The nodes q on the way from c down to n, c included and n excluded.
Between(c, n) == { SubSeq(n, 1, k) : k \in Len(c)..(Len(n) - 1) }

Found == { findings[i] : i \in DOMAIN findings }

EnteredNodes == { e.node : e \in entered }

\* The `if` expressions whose `if let Some(higher::If ..)` arm has run.
DispatchedIfs ==
    { p \in EnteredNodes : Node(p).kind = "If" /\ ~Node(p).macro }

PlainOther(p) == Node(p).kind = "Other" /\ ~Node(p).macro
PlainIf(p) == Node(p).kind = "If" /\ ~Node(p).macro

\* The index of the first operand of c that is not skipped as macro
\* expansion, or 0.
FirstUnskipped(c) ==
    LET live == { j \in DOMAIN Node(c).kids : ~Node(c \o <<j>>).macro }
    IN  IF live = {} THEN 0 ELSE CHOOSE j \in live : \A k \in live : j <= k

SimpleIf(t) ==
    /\ t.kind = "If"
    /\ ~t.macro
    /\ \A i \in DOMAIN t.kids : t.kids[i] = Leaf

----------------------------------------------------------------------------
(* Properties *)

\* n is an `if` that is not skipped and is reached from the condition of the
\* `if` a by descent through expressions that are not an `if` and not
\* skipped, the condition itself being such an expression.
NestedOperand(a, n) ==
    /\ IsPrefix(CondOf(a), n)
    /\ n # CondOf(a)
    /\ PlainIf(n)
    /\ \A q \in Between(CondOf(a), n) : PlainOther(q)

\* C1 (completeness): when the walk is over, every `if` that is nested in the
\* condition of an `if` the walk has processed, at whatever depth and at
\* whatever position among the operands, has a diagnostic.
C1_Completeness ==
    pc = "done" =>
        \A a \in DispatchedIfs : \A n \in AllPaths :
            NestedOperand(a, n) => n \in Found

\* The body is one `if` with trivial branches whose condition is a simple `if`
\* (inner = <<1>>) or an expression one operand of which is a simple `if`, the
\* other operands being trivial (inner = <<1, j>>).
C2Inner ==
    IF body.kind # "If" \/ body.macro \/ fnMacro
       \/ \E i \in DOMAIN body.kids : i > 1 /\ body.kids[i] # Leaf
    THEN {}
    ELSE LET c == body.kids[1]
         IN  IF SimpleIf(c)
             THEN {<<1>>}
             ELSE IF c.kind = "Other" /\ ~c.macro
                  THEN { <<1, j>> : j \in { k \in DOMAIN c.kids :
                             /\ SimpleIf(c.kids[k])
                             /\ \A m \in DOMAIN c.kids : m # k => c.kids[m] = Leaf } }
                  ELSE {}

\* C2: for an outer `if` whose condition is an `if`, or has an `if` as one of
\* its operands, the walk emits exactly one diagnostic, and its span is the
\* inner `if`.
C2_ExactlyOneInner ==
    pc = "done" => \A n \in C2Inner : findings = <<n>>

\* C3: the then-branch of every `if` the walk processes is visited, and the
\* flag is true when it is visited.
C3_ThenVisitedWithFlag ==
    pc = "done" =>
        \A a \in DispatchedIfs :
            [node |-> ThenOf(a), flag |-> TRUE] \in entered

\* n is an `if` inside the condition of an enclosing `if` a, with no `if` (and
\* so no then- or else-branch) between the condition of a and n.
InConditionSlot(n) ==
    /\ Node(n).kind = "If"
    /\ \E k \in 0..(Len(n) - 1) :
          LET a == SubSeq(n, 1, k)
          IN  /\ Node(a).kind = "If"
              /\ IsPrefix(CondOf(a), n)
              /\ \A q \in Between(CondOf(a), n) : Node(q).kind = "Other"

\* C4 (soundness): every diagnostic is for an `if` that lies in the condition
\* of an enclosing `if` with no then- or else-branch in between; an `if` that
\* is the else-branch of an `if` (a link of an else-if chain) has none.
C4_Soundness ==
    /\ \A n \in Found : InConditionSlot(n)
    /\ \A a \in AllPaths :
          (Node(a).kind = "If" /\ HasElse(a)) => ElseOf(a) \notin Found

\* C5: for an `if` reached as the else-branch of another `if`, every `if` that
\* is an operand of its condition has a diagnostic when the walk is over, and
\* the walk has gone on into its own else-branch.
C5_ElseIfOperand ==
    pc = "done" =>
        \A a \in DispatchedIfs :
            (HasElse(a) /\ PlainIf(ElseOf(a))) =>
                LET e == ElseOf(a)
                IN  /\ e \in DispatchedIfs
                    /\ HasElse(e) => ElseOf(e) \in EnteredNodes
                    /\ PlainOther(CondOf(e)) =>
                         \A j \in DOMAIN Node(CondOf(e)).kids :
                             PlainIf(CondOf(e) \o <<j>>) =>
                                 CondOf(e) \o <<j>> \in Found

C7_FlagTrueOnEveryReturn ==
    \A r \in returned : r.flag = TRUE

\* C7 as amended: whenever visit_expr returns from a node it did not skip as
\* macro expansion the flag is true; when it returns from a skipped node the
\* flag is what it was on entry.
C7_FlagOnReturn ==
    \A r \in returned :
        IF r.skipped
        THEN [node |-> r.node, flag |-> r.flag] \in entered
        ELSE r.flag = TRUE

\* A skipped node has returned with the flag false, and a node that was not
\* skipped has returned.
C7_Witness ==
    /\ \E r \in returned : r.skipped /\ r.flag = FALSE
    /\ \E r \in returned : ~r.skipped

\* C8 (termination): the walk started by check_fn eventually completes, with
\* every pending call of visit_expr returned.
C8_Terminates == <>(pc = "done" /\ stack = <<>>)

\* The walk is over and has emitted a diagnostic.
C8_Witness == pc = "done" /\ stack = <<>> /\ findings # <<>> /\ run = 1

\* The diagnostics of the second call of check_fn.
SecondRun == SubSeq(findings, Len(firstRun) + 1, Len(findings))

InWindow ==
    LET AllSkipped(c, upto) ==
            \A j \in DOMAIN Node(c).kids : j <= upto => Node(c \o <<j>>).macro
    IN  /\ stack # <<>>
        /\ \/ /\ Top.op = "walk"
              /\ Len(stack) >= 2
              /\ stack[2] = ElseFrame(SubSeq(Top.node, 1, Len(Top.node) - 1))
              /\ Top.node = CondOf(stack[2].node)
              /\ AllSkipped(Top.node, Top.i - 1)
           \/ /\ Top.op = "visit"
              /\ Len(stack) >= 3
              /\ stack[2].op = "walk"
              /\ Top.node = stack[2].node \o <<stack[2].i - 1>>
              /\ stack[3].op = "else"
              /\ stack[2].node = CondOf(stack[3].node)
              /\ AllSkipped(stack[2].node, stack[2].i - 2)
           \/ /\ Top.op = "else"
              /\ FirstUnskipped(CondOf(Top.node)) = 0
           \/ /\ Top.op = "ret"
              /\ ~HasElse(Top.node)
              /\ PlainIf(Top.node)
              /\ FirstUnskipped(CondOf(Top.node)) = 0

\* The nodes that are the first operand not skipped of the condition of an
\* `if` the walk has processed, and are an `if`.
FirstInCondition ==
    LET First(a) == CondOf(a) \o <<FirstUnskipped(CondOf(a))>>
    IN  { First(a) : a \in { d \in DispatchedIfs :
                                /\ FirstUnskipped(CondOf(d)) # 0
                                /\ Node(First(d)).kind = "If" } }

\* C10 (exact firing condition): the flag is false only in the window above;
\* a diagnostic is emitted for an `if` exactly when it is the first node not
\* skipped that is visited in the walk of the condition of an enclosing `if`;
\* no `if` gets two diagnostics.
C10_ExactFiring ==
    /\ (pc = "walking" /\ ~in_outer_if) => InWindow
    /\ Found \subseteq FirstInCondition
    /\ pc = "done" => Found = FirstInCondition
    /\ \A i, j \in DOMAIN findings : findings[i] = findings[j] => i = j

\* The walk is over; the first operand of a condition was skipped as macro
\* expansion and the `if` that is the second operand got the diagnostic.
C10_Witness ==
    /\ pc = "done"
    /\ \E n \in Found : n[Len(n)] = 2 /\ Node(SubSeq(n, 1, Len(n) - 1) \o <<1>>).macro

====
